---- MODULE Spec2Model ----
(***************************************************************************)
(* Model of eval_hub.services.model_service.ModelService: the registry of  *)
(* explicitly registered models (_registered_models) and of the models     *)
(* scanned from EVAL_HUB_MODEL_<ID>_URL environment variables              *)
(* (_runtime_models), with the lazy initialization every public method     *)
(* performs first.                                                         *)
(*                                                                         *)
(* Spec      one action per public method, each action being the whole     *)
(*           method (sequential callers), plus the host's changes of the   *)
(*           process environment and of the wall clock.                    *)
(* SpecConc  a writer thread in reload_runtime_models or update_model and  *)
(*           a reader thread in get_model_by_id or get_all_models, both    *)
(*           taken statement by statement.                                 *)
(* SpecExec  the backend executor contract (NemoEvaluatorExecutor): eager  *)
(*           configuration validation, health_check, and one evaluation    *)
(*           run through the retry engine, with the run tracker and the    *)
(*           progress callback as logs.                                    *)
(***************************************************************************)
EXTENDS Naturals, Sequences, FiniteSets, TLC

VARIABLES
    os_environ,     \* the process environment, per <ID> segment
    registered,     \* self._registered_models : model_id -> Model
    runtime,        \* self._runtime_models    : model_id -> Model
    initialized,    \* self._initialized
    order,          \* the key orders of os.environ, _registered_models, _runtime_models
    clock,          \* what datetime.utcnow() returns now
    last,           \* the last call: its name, the error it raised, its return value
    pc,             \* SpecConc: the writer thread's position
    wr,             \* SpecConc: the writer thread's call (argument, maps before, maps after)
    rd,             \* SpecConc: the reader thread's position and locals
    obs,            \* SpecConc: history of the reader thread's call (what it returned)
    ex              \* SpecExec: a backend executor, its one evaluation run, its collaborators' logs

vars == <<os_environ, registered, runtime, initialized, order, clock, last, pc, wr, rd, obs, ex>>

(***************************************************************************)
(* Bounds and input sets.                                                  *)
(***************************************************************************)
\* datetime.utcnow() takes the values 0..MaxClock
MaxClock == 1

\* Python's None, for the optional string-valued fields
None == "None"

\* the <ID> segments of the EVAL_HUB_MODEL_<ID>_URL variables the host may set
Segs == {"A", "B"}

\* the value of an unset variable group
NoVar == [url |-> None, name |-> None, type |-> None, path |-> None]

\* EVAL_HUB_MODEL_<ID>_URL alone
EnvPlain == [url |-> "http://x", name |-> None, type |-> None, path |-> None]

\* EVAL_HUB_MODEL_<ID>_URL set to blanks
EnvBlank == [url |-> "  ", name |-> None, type |-> None, path |-> None]

\* URL with surrounding blanks, and the _NAME, _TYPE (not a ModelType) and _PATH siblings
EnvFull == [url |-> " http://y ", name |-> "N", type |-> "BOGUS", path |-> "/p"]

\* the settings the host makes: <<segment, variable group>>
EnvSettings == {<<"A", EnvPlain>>, <<"A", EnvBlank>>, <<"B", EnvFull>>}

\* the environments these settings produce
Environments ==
    {e \in [Segs -> {NoVar, EnvPlain, EnvBlank, EnvFull}] :
        \A seg \in Segs : e[seg] = NoVar \/ <<seg, e[seg]>> \in EnvSettings}

\* models.model.ModelType (the members besides OPENAI_COMPATIBLE are not in the sources)
ModelType == {"openai-compatible", "huggingface"}

\* models.model.ModelStatus (the members besides ACTIVE are not in the sources)
ModelStatus == {"active", "inactive"}

\* ModelCapabilities() and ModelConfig() built with their defaults
DefaultCapabilities == "ModelCapabilities()"

DefaultConfig == "ModelConfig()"

\* the identifiers callers pass to update, delete and get
ModelIds == {"a", "b", "B"}

\* the fields of Model a ModelUpdateRequest can carry
UpdatableFields == {"model_name", "description", "model_type", "base_url",
                    "api_key_required", "model_path", "capabilities", "config",
                    "status", "tags"}

\* ModelRegistrationRequest values: "a" is also the identifier of segment A
RegisterA == [model_id |-> "a", model_name |-> "M", description |-> "d",
              model_type |-> "openai-compatible", base_url |-> "http://m",
              api_key_required |-> FALSE, model_path |-> None, capabilities |-> None,
              config |-> None, status |-> "active", tags |-> <<"t1">>]

RegisterB == [model_id |-> "B", model_name |-> "M2", description |-> "d2",
              model_type |-> "huggingface", base_url |-> "http://m2",
              api_key_required |-> TRUE, model_path |-> "/m2", capabilities |-> "caps2",
              config |-> "conf2", status |-> "inactive", tags |-> <<"t1", "t2">>]

RegistrationRequests == {RegisterA, RegisterB}

\* a ModelUpdateRequest value: a function from the fields that are not None to
\* their values.  Every field but the description is supplied; the tags are
\* the empty list, which is not None
UpdateMany == [model_name |-> "M'", model_type |-> "huggingface",
               base_url |-> "http://m'", api_key_required |-> TRUE, model_path |-> "/m'",
               capabilities |-> "caps'", config |-> "conf'", status |-> "inactive",
               tags |-> <<>>]

UpdateRequests == {UpdateMany}

(***************************************************************************)
(* String functions, on the strings the inputs above contain.              *)
(***************************************************************************)
\* str.lower()
Lower(s) == CASE s = "A" -> "a"
              [] s = "B" -> "b"
              [] s = "BOGUS" -> "bogus"
              [] s = "OpenAI-Compatible" -> "openai-compatible"
              [] OTHER -> s

\* str.upper()
Upper(s) == CASE s = "a" -> "A"
              [] s = "b" -> "B"
              [] OTHER -> s

\* str.strip()
Strip(s) == CASE s = "  " -> ""
              [] s = " http://y " -> "http://y"
              [] OTHER -> s

\* os.getenv(var, default)
GetEnv(value, default) == IF value = None THEN default ELSE value

(***************************************************************************)
(* Python dicts keep their keys in insertion order: every map of the       *)
(* program is a function together with the sequence of its keys (order).   *)
(***************************************************************************)
\* the elements of a list
Elements(seq) == {seq[i] : i \in 1..Len(seq)}

\* the key order after "del d[key]"
Remove(seq, key) == SelectSeq(seq, LAMBDA k : k # key)

\* the key order after "d[key] = value": a new key goes last, a key that is
\* there keeps its place
Insert(seq, key) == IF key \in Elements(seq) THEN seq ELSE Append(seq, key)

\* the orders in which the keys of S can have been inserted
Orderings(S) ==
    {seq \in [1..Cardinality(S) -> S] : \A i, j \in 1..Cardinality(S) : seq[i] = seq[j] => i = j}

\* list(m.values()), m being the map with key order ord
ValuesInOrder(m, ord) == [i \in 1..Len(ord) |-> m[ord[i]]]

(***************************************************************************)
(* _load_runtime_models: the map built from the environment e, whose       *)
(* variables os.environ.items() yields in the order eo.                    *)
(***************************************************************************)
\* re.match(r'EVAL_HUB_MODEL_(.+)_URL', env_var) of the variable of segment seg
MatchesPattern(seg) == seg # ""

\* the branch of the loop that reaches runtime_models[model_id] = runtime_model
IsCandidate(e, seg) == e[seg] # NoVar /\ MatchesPattern(seg) /\ Strip(e[seg].url) # ""

\* the segments whose variables reach that statement, in the order of the loop
Candidates(e, eo) == SelectSeq(eo, LAMBDA seg : IsCandidate(e, seg))

\* the values n successive datetime.utcnow() calls return when the first of
\* them returns t: the clock never goes back, and may advance between two
\* reads of one call as it may between two calls (Tick)
ClockReads(n, t) ==
    {reads \in [1..n -> t..MaxClock] :
        /\ n > 0 => reads[1] = t
        /\ \A i \in 1..(n - 1) : reads[i] <= reads[i + 1]}

\* ModelType(model_type_str.lower()) without the ValueError fallback
ParseModelType_NoFallback(s) == Lower(s)

\* ModelType(model_type_str.lower()), with the ValueError fallback
ParseModelType(s) == IF Lower(s) \in ModelType THEN Lower(s) ELSE "openai-compatible"

\* the Model(...) built for one matching variable; created and updated are
\* the two datetime.utcnow() reads of lines 105 and 106
RuntimeModel(e, seg, created, updated) ==
    LET model_id   == Lower(seg)
        model_name == GetEnv(e[seg].name, "Runtime Model " \o Upper(model_id))
    IN [model_id         |-> model_id,
        model_name       |-> model_name,
        description      |-> "Runtime-specified model: " \o model_name,
        model_type       |-> ParseModelType(GetEnv(e[seg].type, "openai-compatible")),
        base_url         |-> Strip(e[seg].url),
        api_key_required |-> TRUE,
        model_path       |-> e[seg].path,
        capabilities     |-> DefaultCapabilities,
        config           |-> DefaultConfig,
        status           |-> "active",
        tags             |-> <<"runtime">>,
        created_at       |-> created,
        updated_at       |-> updated]

\* the key order of the dict the loop builds
LoadedOrder(e, eo) ==
    LET segs == Candidates(e, eo)
    IN [k \in 1..Len(segs) |-> Lower(segs[k])]

\* the dict the loop builds when its clock reads are reads (two per entry)
LoadedModels(e, eo, reads) ==
    LET segs == Candidates(e, eo)
    IN [id \in Elements(LoadedOrder(e, eo)) |->
          LET k == CHOOSE k \in 1..Len(segs) : Lower(segs[k]) = id
          IN RuntimeModel(e, segs[k], reads[2 * k - 1], reads[2 * k])]

\* the outcomes of _load_runtime_models at time t: the map, its key order, the
\* time of its last clock read, and whether it read the clock at all
load_runtime_models(e, eo, t) ==
    LET n == 2 * Len(Candidates(e, eo))
    IN {[runtime |-> LoadedModels(e, eo, reads),
         order   |-> LoadedOrder(e, eo),
         clock   |-> IF n = 0 THEN t ELSE reads[n],
         read    |-> n > 0] : reads \in ClockReads(n, t)}

(***************************************************************************)
(* The results of calls.                                                   *)
(***************************************************************************)
NoError == ""

ErrExists == "ValueError: already exists"

ErrIsRuntime == "ValueError: is specified as runtime model"

ErrUpdateRuntime == "ValueError: Cannot update runtime models"

ErrDeleteRuntime == "ValueError: Cannot delete runtime models"

\* no writer call is in progress, no read has been made
NoCall == [op |-> "none"]

NoRead == [op |-> "none"]

\* the reader thread is in no call
NoReader == [pc |-> "idle"]

\* what the subscript of a dict raises for a key that is not there
ErrKeyError == "KeyError"

\* what a dict iterator raises when its dict has changed size
ErrDictChanged == "RuntimeError: dictionary changed size during iteration"

Result(op, err, ret) == [op |-> op, err |-> err, ret |-> ret]

\* the Optional[Model] a method returns: no element for None
Some(m) == <<m>>

Absent == <<>>

(***************************************************************************)
(* _initialize                                                             *)
(***************************************************************************)
\* _initialize without its "if self._initialized: return"
initialize_Rescan == load_runtime_models(os_environ, order.environ, clock)

\* _initialize: the outcomes of the call every public method starts with (the
\* runtime map the method works on, its key order, the clock after it)
initialize ==
    IF initialized
    THEN {[runtime |-> runtime, order |-> order.runtime, clock |-> clock, read |-> FALSE]}
    ELSE load_runtime_models(os_environ, order.environ, clock)

\* the environment-sourced map as the service presents it: _runtime_models once
\* initialized, before that the maps the pending _initialize may install
\* (they differ in their timestamps only)
RuntimeView == {init.runtime : init \in initialize}

\* the identifiers of that map
RuntimeIds == UNION {DOMAIN rt : rt \in RuntimeView}

\* what the next datetime.utcnow() of a call returns after _initialize: the
\* clock of the call if this is its first read, else no less than the last read
Now(init) == IF init.read THEN init.clock..MaxClock ELSE {init.clock}

(***************************************************************************)
(* register_model                                                          *)
(***************************************************************************)
NewModel(request, now) ==
    [model_id         |-> request.model_id,
     model_name       |-> request.model_name,
     description      |-> request.description,
     model_type       |-> request.model_type,
     base_url         |-> request.base_url,
     api_key_required |-> request.api_key_required,
     model_path       |-> request.model_path,
     capabilities     |-> IF request.capabilities = None THEN DefaultCapabilities
                          ELSE request.capabilities,
     config           |-> IF request.config = None THEN DefaultConfig ELSE request.config,
     status           |-> request.status,
     tags             |-> request.tags,
     created_at       |-> now,
     updated_at       |-> now]

\* the error of register_model's two checks, NoError when both pass
RegisterCheck(reg, rt, id) ==
    IF id \in DOMAIN reg THEN ErrExists
    ELSE IF id \in DOMAIN rt THEN ErrIsRuntime
    ELSE NoError

\* register_model with the model stored before the runtime check is made
register_model_StoreFirst(request) ==
    \E init \in initialize :
       LET err == RegisterCheck(registered, init.runtime, request.model_id)
       IN /\ pc = "idle"
          /\ initialized' = TRUE
          /\ runtime' = init.runtime
          /\ IF err = ErrExists
             THEN /\ registered' = registered
                  /\ order' = [order EXCEPT !.runtime = init.order]
                  /\ clock' = init.clock
                  /\ last' = Result("register_model", err, Absent)
             ELSE \E now \in Now(init) :
                     LET model == NewModel(request, now)
                     IN /\ registered' = (request.model_id :> model) @@ registered
                        /\ order' = [order EXCEPT !.runtime = init.order,
                                                  !.registered = Insert(@, request.model_id)]
                        /\ clock' = now
                        /\ last' = Result("register_model", err,
                                          IF err = NoError THEN Some(model) ELSE Absent)
          /\ UNCHANGED <<os_environ, pc, wr, rd, obs, ex>>

register_model(request) ==
    \E init \in initialize :
       LET err == RegisterCheck(registered, init.runtime, request.model_id)
       IN /\ pc = "idle"
          /\ initialized' = TRUE
          /\ runtime' = init.runtime
          /\ IF err # NoError
             THEN /\ registered' = registered
                  /\ order' = [order EXCEPT !.runtime = init.order]
                  /\ clock' = init.clock
                  /\ last' = Result("register_model", err, Absent)
             ELSE \E now \in Now(init) :
                     LET model == NewModel(request, now)
                     IN /\ registered' = (request.model_id :> model) @@ registered
                        /\ order' = [order EXCEPT !.runtime = init.order,
                                                  !.registered = Insert(@, request.model_id)]
                        /\ clock' = now
                        /\ last' = Result("register_model", NoError, Some(model))
          /\ UNCHANGED <<os_environ, pc, wr, rd, obs, ex>>

(***************************************************************************)
(* update_model                                                            *)
(***************************************************************************)
\* the assignment without its "is not None" test on the description
UpdatedField_NullOut(model, request, f) ==
    IF f \in DOMAIN request THEN request[f]
    ELSE IF f = "description" THEN None
    ELSE model[f]

\* one "if request.<field> is not None: model.<field> = request.<field>"
UpdatedField(model, request, f) == IF f \in DOMAIN request THEN request[f] ELSE model[f]

\* update_model without "model.updated_at = datetime.utcnow()"
ApplyUpdate_NoTimestamp(model, request, now) ==
    [f \in DOMAIN model |->
        IF f \in UpdatableFields THEN UpdatedField(model, request, f) ELSE model[f]]

\* the model after all the assignments of update_model
ApplyUpdate(model, request, now) ==
    [f \in DOMAIN model |->
        IF f \in UpdatableFields THEN UpdatedField(model, request, f)
        ELSE IF f = "updated_at" THEN now
        ELSE model[f]]

\* update_model without its runtime check
UpdateCheck_NoCheck(rt, id) == NoError

\* the error of update_model's first check
UpdateCheck(rt, id) == IF id \in DOMAIN rt THEN ErrUpdateRuntime ELSE NoError

update_model(model_id, request) ==
    \E init \in initialize :
       LET err == UpdateCheck(init.runtime, model_id)
       IN /\ pc = "idle"
          /\ initialized' = TRUE
          /\ runtime' = init.runtime
          /\ order' = [order EXCEPT !.runtime = init.order]
          /\ IF err # NoError
             THEN /\ registered' = registered
                  /\ clock' = init.clock
                  /\ last' = Result("update_model", err, Absent)
             ELSE IF model_id \notin DOMAIN registered
             THEN /\ registered' = registered
                  /\ clock' = init.clock
                  /\ last' = Result("update_model", NoError, Absent)
             ELSE \E now \in Now(init) :
                     LET model == ApplyUpdate(registered[model_id], request, now)
                     IN /\ registered' = [registered EXCEPT ![model_id] = model]
                        /\ clock' = now
                        /\ last' = Result("update_model", NoError, Some(model))
          /\ UNCHANGED <<os_environ, pc, wr, rd, obs, ex>>

(***************************************************************************)
(* delete_model                                                            *)
(***************************************************************************)
\* the error of delete_model's first check
DeleteCheck(rt, id) == IF id \in DOMAIN rt THEN ErrDeleteRuntime ELSE NoError

\* delete_model returning True also when there was nothing to delete
delete_model_AlwaysTrue(model_id) ==
    \E init \in initialize :
       LET err == DeleteCheck(init.runtime, model_id)
       IN /\ pc = "idle"
          /\ initialized' = TRUE
          /\ runtime' = init.runtime
          /\ clock' = init.clock
          /\ registered' = IF err = NoError
                            THEN [id \in DOMAIN registered \ {model_id} |-> registered[id]]
                            ELSE registered
          /\ order' = [order EXCEPT !.runtime = init.order,
                                    !.registered = IF err = NoError
                                                   THEN Remove(@, model_id) ELSE @]
          /\ last' = Result("delete_model", err, err = NoError)
          /\ UNCHANGED <<os_environ, pc, wr, rd, obs, ex>>

delete_model(model_id) ==
    \E init \in initialize :
       LET err == DeleteCheck(init.runtime, model_id)
       IN /\ pc = "idle"
          /\ initialized' = TRUE
          /\ runtime' = init.runtime
          /\ clock' = init.clock
          /\ IF err # NoError
             THEN /\ registered' = registered
                  /\ order' = [order EXCEPT !.runtime = init.order]
                  /\ last' = Result("delete_model", err, FALSE)
             ELSE IF model_id \in DOMAIN registered
             THEN /\ registered' = [id \in DOMAIN registered \ {model_id} |-> registered[id]]
                  /\ order' = [order EXCEPT !.runtime = init.order,
                                            !.registered = Remove(@, model_id)]
                  /\ last' = Result("delete_model", NoError, TRUE)
             ELSE /\ registered' = registered
                  /\ order' = [order EXCEPT !.runtime = init.order]
                  /\ last' = Result("delete_model", NoError, FALSE)
          /\ UNCHANGED <<os_environ, pc, wr, rd, obs, ex>>

(***************************************************************************)
(* get_model_by_id                                                         *)
(***************************************************************************)
\* get_model_by_id without its second lookup
Lookup_RegisteredOnly(reg, rt, id) == IF id \in DOMAIN reg THEN Some(reg[id]) ELSE Absent

\* the two lookups of get_model_by_id
Lookup(reg, rt, id) ==
    IF id \in DOMAIN reg THEN Some(reg[id])
    ELSE IF id \in DOMAIN rt THEN Some(rt[id])
    ELSE Absent

get_model_by_id(model_id) ==
    \E init \in initialize :
       /\ pc = "idle"
       /\ initialized' = TRUE
       /\ runtime' = init.runtime
       /\ order' = [order EXCEPT !.runtime = init.order]
       /\ clock' = init.clock
       /\ last' = Result("get_model_by_id", NoError, Lookup(registered, init.runtime, model_id))
       /\ UNCHANGED <<os_environ, registered, pc, wr, rd, obs, ex>>

(***************************************************************************)
(* get_all_models                                                          *)
(***************************************************************************)
\* the ModelSummary(...) of one model
ModelSummary(model) ==
    [model_id    |-> model.model_id,
     model_name  |-> model.model_name,
     description |-> model.description,
     model_type  |-> model.model_type,
     base_url    |-> model.base_url,
     status      |-> model.status,
     tags        |-> model.tags,
     created_at  |-> model.created_at]

\* the listing without its status test
Listed_All(model, include_inactive) == TRUE

\* the condition under which a registered model is summarised
Listed(model, include_inactive) == include_inactive \/ model.status = "active"

\* the loop over self._registered_models.values()
RegisteredSummaries(reg, reg_order, include_inactive) ==
    LET ids == SelectSeq(reg_order, LAMBDA id : Listed(reg[id], include_inactive))
    IN [i \in 1..Len(ids) |-> ModelSummary(reg[ids[i]])]

\* the loop over self._runtime_models.values()
RuntimeSummaries(rt, rt_order) ==
    [i \in 1..Len(rt_order) |-> ModelSummary(rt[rt_order[i]])]

\* lines 268-274: the ListModelsResponse(...) built from the two lists
Response(registered_summaries, runtime_summaries) ==
    LET all_summaries == registered_summaries \o runtime_summaries
    IN [models         |-> all_summaries,
        total_models   |-> Len(all_summaries),
        runtime_models |-> runtime_summaries]

\* the ListModelsResponse(...) built from the two maps
ListModelsResponse(reg, reg_order, rt, rt_order, include_inactive) ==
    Response(RegisteredSummaries(reg, reg_order, include_inactive),
             RuntimeSummaries(rt, rt_order))

get_all_models(include_inactive) ==
    \E init \in initialize :
       /\ pc = "idle"
       /\ initialized' = TRUE
       /\ runtime' = init.runtime
       /\ order' = [order EXCEPT !.runtime = init.order]
       /\ clock' = init.clock
       /\ last' = Result("get_all_models", NoError,
                         [include_inactive |-> include_inactive,
                          response |-> ListModelsResponse(registered, order.registered,
                                                          init.runtime, init.order,
                                                          include_inactive)])
       /\ UNCHANGED <<os_environ, registered, pc, wr, rd, obs, ex>>

(***************************************************************************)
(* search_models, get_active_models                                        *)
(***************************************************************************)
\* the (model_type, status, tags) arguments callers pass; None and the empty
\* list are the falsy values the three "if" tests let through
NoTags == <<>>

\* the arguments of get_active_models's call of search_models
ActiveQuery == [model_type |-> None, status |-> "active", tags |-> NoTags]

SearchQueries == {
    [model_type |-> None, status |-> None, tags |-> NoTags],
    [model_type |-> "huggingface", status |-> None, tags |-> NoTags],
    [model_type |-> None, status |-> None, tags |-> <<"t2", "runtime">>],
    [model_type |-> "openai-compatible", status |-> "active", tags |-> <<"t1">>] }

\* "not (tags and not any(tag in model.tags for tag in tags))" with all() for any()
TagsMatch_AllOf(model, tags) ==
    tags = NoTags \/ \A tag \in Elements(tags) : tag \in Elements(model.tags)

\* "not (tags and not any(tag in model.tags for tag in tags))"
TagsMatch(model, tags) ==
    tags = NoTags \/ \E tag \in Elements(tags) : tag \in Elements(model.tags)

\* the model reaches filtered_models.append(model)
Matches(model, query) ==
    /\ query.model_type = None \/ model.model_type = query.model_type
    /\ query.status = None \/ model.status = query.status
    /\ TagsMatch(model, query.tags)

\* the loop over all_models
FilteredValues(all_models, query) == SelectSeq(all_models, LAMBDA model : Matches(model, query))

\* the list search_models returns
SearchResult(reg, reg_order, rt, rt_order, query) ==
    FilteredValues(ValuesInOrder(reg, reg_order) \o ValuesInOrder(rt, rt_order), query)

\* the call under the name op: search_models itself, or get_active_models,
\* which returns self.search_models(status=ModelStatus.ACTIVE)
Search(op, query) ==
    \E init \in initialize :
       /\ pc = "idle"
       /\ initialized' = TRUE
       /\ runtime' = init.runtime
       /\ order' = [order EXCEPT !.runtime = init.order]
       /\ clock' = init.clock
       /\ last' = Result(op, NoError,
                         SearchResult(registered, order.registered,
                                      init.runtime, init.order, query))
       /\ UNCHANGED <<os_environ, registered, pc, wr, rd, obs, ex>>

search_models(query) == Search("search_models", query)

get_active_models == Search("get_active_models", ActiveQuery)

(***************************************************************************)
(* reload_runtime_models                                                   *)
(***************************************************************************)
\* reload_runtime_models updating the previous map with the new scan
reload_runtime_models_Merge ==
    \E scan \in load_runtime_models(os_environ, order.environ, clock) :
       /\ pc = "idle"
       /\ runtime' = scan.runtime @@ runtime
       /\ order' = [order EXCEPT !.runtime =
                       scan.order \o SelectSeq(@, LAMBDA id : id \notin Elements(scan.order))]
       /\ clock' = scan.clock
       /\ last' = [op |-> "reload_runtime_models", err |-> NoError, ret |-> Absent,
                   replaced |-> DOMAIN runtime]
       /\ UNCHANGED <<os_environ, registered, initialized, pc, wr, rd, obs, ex>>

reload_runtime_models ==
    \E scan \in load_runtime_models(os_environ, order.environ, clock) :
       /\ pc = "idle"
       /\ runtime' = scan.runtime
       /\ order' = [order EXCEPT !.runtime = scan.order]
       /\ clock' = scan.clock
       /\ last' = [op |-> "reload_runtime_models", err |-> NoError, ret |-> Absent,
                   replaced |-> DOMAIN runtime]   \* history: the identifiers before the call
       /\ UNCHANGED <<os_environ, registered, initialized, pc, wr, rd, obs, ex>>

(***************************************************************************)
(* The host: the process environment and the wall clock.                   *)
(***************************************************************************)
\* os.environ["EVAL_HUB_MODEL_<seg>_URL"] = ... with its sibling variables
SetEnv(seg, config) ==
    /\ pc = "idle"
    /\ os_environ[seg] # config
    /\ os_environ' = [os_environ EXCEPT ![seg] = config]
    /\ order' = [order EXCEPT !.environ = Insert(@, seg)]
    /\ UNCHANGED <<registered, runtime, initialized, clock, last, pc, wr, rd, obs, ex>>

\* the variables of one segment are removed from the environment
UnsetEnv(seg) ==
    /\ pc = "idle"
    /\ os_environ[seg] # NoVar
    /\ os_environ' = [os_environ EXCEPT ![seg] = NoVar]
    /\ order' = [order EXCEPT !.environ = Remove(@, seg)]
    /\ UNCHANGED <<registered, runtime, initialized, clock, last, pc, wr, rd, obs, ex>>

\* time passes between two calls
Tick ==
    /\ pc = "idle"
    /\ clock < MaxClock
    /\ clock' = clock + 1
    /\ UNCHANGED <<os_environ, registered, runtime, initialized, order, last, pc, wr, rd, obs, ex>>

(***************************************************************************)
(* The backend executor (eval_hub.executors.nemo.NemoEvaluatorExecutor,    *)
(* eval_hub.executors.base): construction, health_check, and one run of    *)
(* execute_benchmark through the retry engine.                             *)
(***************************************************************************)

\* NemoContainerConfig.max_retries when the backend configuration has none
DefaultMaxRetries == 3

\* the endpoint of the backend configuration of the tests
Endpoint == "http://nemo.example.com"

\* backend configuration bags: endpoint missing (None), empty or given;
\* max_retries unspecified (Absent) or given
BackendConfigs ==
    {[endpoint |-> e, max_retries |-> r] :
        e \in {None, "", Endpoint}, r \in {Absent, Some(1), Some(2)}}

ErrMissingEndpoint == "ValueError: NeMo Evaluator configuration missing required field: endpoint"

ErrEmptyEndpoint == "ValueError: NeMo Evaluator endpoint must be a non-empty string"

\* the validation of the constructor that tells a missing endpoint only
ValidateConfig_MissingOnly(config) ==
    IF config.endpoint = None THEN ErrMissingEndpoint ELSE NoError

\* the eager validation of the constructor: the error it raises, if any
ValidateConfig(config) ==
    IF config.endpoint = None THEN ErrMissingEndpoint
    ELSE IF config.endpoint = "" THEN ErrEmptyEndpoint
    ELSE NoError

\* the maximum attempt count: from the backend configuration, else the default
MaxAttempts(config) ==
    IF config.max_retries = Absent THEN DefaultMaxRetries ELSE config.max_retries[1]

\* the states of an evaluation run; NoRun: no Execution Context constructed
NoRun == "NONE"

TerminalStates == {"COMPLETED", "FAILED", "TIMEOUT"}

RunStates == {NoRun, "PENDING", "RUNNING", "RETRYING"} \cup TerminalStates

\* the progress values reported at the checkpoints: start, n-th retry, completion
ProgressStart == 0

ProgressComplete == 100

\* a retry update that repeats the value reported on start
RetryProgress_Flat(n) == ProgressStart

RetryProgress(n) == ProgressStart + n

\* progress_callback(evaluation_id, progress, message), when one was supplied
Emit(progress, callback, value) ==
    IF callback THEN Append(progress, value) ELSE progress

\* the outcomes of the liveness probe: the POST answers 200, answers another
\* status, or raises (connection refused, timeout, protocol error)
ProbeOutcomes == {"200", "500", "raise"}

\* health_check letting the exception of the POST through
HealthResult_Propagates(outcome) ==
    [raised |-> outcome = "raise", ret |-> outcome = "200"]

\* health_check: what it raises and what it returns
HealthResult(outcome) == [raised |-> FALSE, ret |-> outcome = "200"]

\* the retry engine asking for another attempt after the last allowed one
HasAttemptsLeft_OffByOne(attempts, budget) == attempts <= budget

\* the retry engine: attempts remain
HasAttemptsLeft(attempts, budget) == attempts < budget

\* the canonical EvaluationResult, by its terminal status
CanonicalResult(status) == [raised |-> FALSE, status |-> status]

\* no executor, no Execution Context
NoExecutor ==
    [executor |-> Absent, ctor |-> NoError, health |-> Absent,
     status |-> NoRun, callback |-> FALSE, attempts |-> 0, failures |-> 0,
     progress |-> <<>>, tracker |-> <<>>, result |-> Absent]

\* NemoEvaluatorExecutor(config): raises, or the executor exists
Construct(config) ==
    LET err == ValidateConfig(config)
    IN /\ ex.executor = Absent
       /\ ex' = [ex EXCEPT !.ctor = err,
                           !.executor = IF err = NoError THEN Some(config) ELSE Absent]
       /\ UNCHANGED <<os_environ, registered, runtime, initialized, order, clock, last, pc, wr, rd, obs>>

\* health_check() of an executor that exists
health_check(outcome) ==
    /\ ex.executor # Absent
    /\ ex' = [ex EXCEPT !.health = Some(HealthResult(outcome))]
    /\ UNCHANGED <<os_environ, registered, runtime, initialized, order, clock, last, pc, wr, rd, obs>>

\* ExecutionContext(...): the run is PENDING
CreateContext ==
    /\ ex.status = NoRun
    /\ ex' = [ex EXCEPT !.status = "PENDING"]
    /\ UNCHANGED <<os_environ, registered, runtime, initialized, order, clock, last, pc, wr, rd, obs>>

\* execute_benchmark up to its first attempt: run tracker start, progress on
\* start, RUNNING
execute_benchmark(callback) ==
    /\ ex.executor # Absent
    /\ ex.status = "PENDING"
    /\ ex' = [ex EXCEPT !.status = "RUNNING",
                        !.callback = callback,
                        !.attempts = 1,
                        !.tracker = Append(@, "start"),
                        !.progress = Emit(@, callback, ProgressStart)]
    /\ UNCHANGED <<os_environ, registered, runtime, initialized, order, clock, last, pc, wr, rd, obs>>

\* the attempt succeeds: the native result is converted, the run tracker is
\* told of the completion, the completion is reported, the result returned
attempt_succeeds ==
    /\ ex.status = "RUNNING"
    /\ ex' = [ex EXCEPT !.status = "COMPLETED",
                        !.tracker = Append(@, "complete"),
                        !.progress = Emit(@, ex.callback, ProgressComplete),
                        !.result = Some(CanonicalResult("completed"))]
    /\ UNCHANGED <<os_environ, registered, runtime, initialized, order, clock, last, pc, wr, rd, obs>>

\* the attempt fails: with a recoverable failure and attempts left the engine
\* reports the retry and the run is RETRYING; otherwise the run is FAILED, the
\* run tracker is told of the failure and the failed result is returned
attempt_fails(recoverable) ==
    /\ ex.status = "RUNNING"
    /\ IF recoverable /\ HasAttemptsLeft(ex.attempts, MaxAttempts(ex.executor[1]))
       THEN ex' = [ex EXCEPT !.status = "RETRYING",
                             !.failures = @ + 1,
                             !.progress = Emit(@, ex.callback, RetryProgress(ex.attempts))]
       ELSE ex' = [ex EXCEPT !.status = "FAILED",
                             !.failures = @ + 1,
                             !.tracker = Append(@, "fail"),
                             !.result = Some(CanonicalResult("failed"))]
    /\ UNCHANGED <<os_environ, registered, runtime, initialized, order, clock, last, pc, wr, rd, obs>>

\* after the backoff delay: the next attempt
retry ==
    /\ ex.status = "RETRYING"
    /\ ex' = [ex EXCEPT !.status = "RUNNING", !.attempts = @ + 1]
    /\ UNCHANGED <<os_environ, registered, runtime, initialized, order, clock, last, pc, wr, rd, obs>>

\* the deadline elapsing on a run that has completed as well
deadline_elapses_AnyState ==
    /\ ex.status \in {"RUNNING", "RETRYING", "COMPLETED"}
    /\ ex' = [ex EXCEPT !.status = "TIMEOUT",
                        !.tracker = Append(@, "fail"),
                        !.result = Some(CanonicalResult("timeout"))]
    /\ UNCHANGED <<os_environ, registered, runtime, initialized, order, clock, last, pc, wr, rd, obs>>

\* the per-attempt or overall deadline elapses during an attempt, or the
\* overall deadline during the backoff wait: no further retries, the run
\* tracker is told of the failure, the timeout result is returned
deadline_elapses ==
    /\ ex.status \in {"RUNNING", "RETRYING"}
    /\ ex' = [ex EXCEPT !.status = "TIMEOUT",
                        !.tracker = Append(@, "fail"),
                        !.result = Some(CanonicalResult("timeout"))]
    /\ UNCHANGED <<os_environ, registered, runtime, initialized, order, clock, last, pc, wr, rd, obs>>

(***************************************************************************)
(* Spec: the service after __init__, in a process with any of the          *)
(* environments.                                                           *)
(***************************************************************************)
\* the segments whose variables are set in e
SetSegs(e) == {seg \in Segs : e[seg] # NoVar}

Init ==
    /\ os_environ \in Environments
    /\ registered = <<>>
    /\ runtime = <<>>
    /\ initialized = FALSE
    /\ order \in {[environ |-> eo, registered |-> <<>>, runtime |-> <<>>] :
                     eo \in Orderings(SetSegs(os_environ))}
    /\ clock = 0
    /\ last = Result("__init__", NoError, Absent)
    /\ pc = "idle"
    /\ wr = NoCall
    /\ rd = NoReader
    /\ obs = NoRead
    /\ ex = NoExecutor

Next ==
    \/ \E request \in RegistrationRequests : register_model(request)
    \/ \E id \in ModelIds, request \in UpdateRequests : update_model(id, request)
    \/ \E id \in ModelIds : delete_model(id)
    \/ \E id \in ModelIds : get_model_by_id(id)
    \/ \E include_inactive \in BOOLEAN : get_all_models(include_inactive)
    \/ \E query \in SearchQueries : search_models(query)
    \/ get_active_models
    \/ reload_runtime_models
    \/ \E setting \in EnvSettings : SetEnv(setting[1], setting[2])
    \/ \E seg \in Segs : UnsetEnv(seg)
    \/ Tick

Spec == Init /\ [][Next]_vars

(***************************************************************************)
(* Concurrent callers: one writer thread inside reload_runtime_models or   *)
(* inside the assignments of update_model, one reader thread inside        *)
(* get_model_by_id or get_all_models.  The service takes no lock, so the   *)
(* two threads interleave statement by statement.                          *)
(***************************************************************************)
\* the assignments of update_model, lines 173-194, in program order
UpdateOrder == <<"model_name", "description", "model_type", "base_url", "api_key_required",
                 "model_path", "capabilities", "config", "status", "tags", "updated_at">>

\* the attributes ModelSummary(...) is given, lines 241-248, in program order
SummaryOrder == <<"model_id", "model_name", "description", "model_type", "base_url",
                  "status", "tags", "created_at">>

\* the ModelSummary built from the attribute values read in that order
SummaryOf(vals) == [f \in Elements(SummaryOrder) |->
                      vals[CHOOSE i \in 1..Len(SummaryOrder) : SummaryOrder[i] = f]]

\* what get_model_by_id returns: the Model object stored under an
\* identifier of _registered_models, whose fields update_model assigns in
\* place, or a Model object of a runtime map, which no statement writes
RegisteredObject(model_id) == [of |-> "registered", model_id |-> model_id]

RuntimeObject(model) == [of |-> "runtime", model |-> model]

\* history: the complete runtime map and the complete registered entries
\* there are for a call that begins now (the writer may be in mid-call)
CompleteRuntime ==
    IF pc = "reload_runtime_models"
    THEN [runtime |-> wr.before, order |-> wr.before_order]
    ELSE [runtime |-> runtime, order |-> order.runtime]

CompleteEntries ==
    {registered[id] : id \in {x \in DOMAIN registered : ~(pc = "update_model" /\ wr.model_id = x)}}
    \cup (IF pc = "update_model" THEN {wr.before, wr.after} ELSE {})

\* history while a reader call runs: the complete maps and entries there
\* have been since it began
Running == [op |-> "running", maps |-> {CompleteRuntime}, entries |-> CompleteEntries]

\* history after a reader call: what it returned or raised
Returned(op, arg, err, ret) == [op |-> op, arg |-> arg, err |-> err, ret |-> ret]

\* update_model up to "model = self._registered_models[model_id]"
update_begin(model_id, request) ==
    /\ pc = "idle"
    /\ initialized
    /\ UpdateCheck(runtime, model_id) = NoError
    /\ model_id \in DOMAIN registered
    /\ pc' = "update_model"
    /\ wr' = [op |-> "update_model", model_id |-> model_id, request |-> request,
              before |-> registered[model_id],
              after |-> ApplyUpdate(registered[model_id], request, clock),
              line |-> 1]
    /\ obs' = IF obs.op = "running"
              THEN [obs EXCEPT !.entries = @ \cup {wr'.after}]
              ELSE obs
    /\ UNCHANGED <<os_environ, registered, runtime, initialized, order, clock, last, rd, ex>>

\* the value the assignment to field f stores
AssignedValue(model, request, f, now) ==
    IF f = "updated_at" THEN now ELSE UpdatedField(model, request, f)

\* one of the eleven statements; the last one is followed by "return model"
update_step ==
    /\ pc = "update_model"
    /\ LET f     == UpdateOrder[wr.line]
           model == registered[wr.model_id]
           value == AssignedValue(model, wr.request, f, clock)
           new   == [model EXCEPT ![f] = value]
       IN /\ registered' = [registered EXCEPT ![wr.model_id] = new]
          /\ IF wr.line < Len(UpdateOrder)
             THEN /\ wr' = [wr EXCEPT !.line = @ + 1]
                  /\ UNCHANGED <<pc, last>>
             ELSE /\ pc' = "idle"
                  /\ wr' = NoCall
                  /\ last' = Result("update_model", NoError, Some(new))
    /\ UNCHANGED <<os_environ, runtime, initialized, order, clock, rd, obs, ex>>

\* reload_runtime_models: self._runtime_models.clear(); wr.after is the
\* outcome the _load_runtime_models that follows will have.  A dict iterator
\* compares the size of its dict with the size it began with at each step, so
\* clear() on a dict that had entries ends the reader's loop over it
reload_clear ==
    \E scan \in load_runtime_models(os_environ, order.environ, clock) :
       /\ pc = "idle"
       /\ pc' = "reload_runtime_models"
       /\ wr' = [op |-> "reload_runtime_models", before |-> runtime,
                 before_order |-> order.runtime, after |-> scan]
       /\ runtime' = <<>>
       /\ order' = [order EXCEPT !.runtime = <<>>]
       /\ rd' = IF rd.pc = "list_254_next" /\ Len(rd.it) > 0
                THEN [rd EXCEPT !.changed_size = TRUE]
                ELSE rd
       /\ UNCHANGED <<os_environ, registered, initialized, clock, last, obs, ex>>

\* reload_runtime_models: self._load_runtime_models(), whose last statement
\* assigns the map built in a local; iterators stay on the dict they began on
reload_load ==
    /\ pc = "reload_runtime_models"
    /\ runtime' = wr.after.runtime
    /\ order' = [order EXCEPT !.runtime = wr.after.order]
    /\ clock' = wr.after.clock
    /\ pc' = "idle"
    /\ wr' = NoCall
    /\ last' = [op |-> "reload_runtime_models", err |-> NoError, ret |-> Absent,
                replaced |-> DOMAIN wr.before]
    /\ obs' = IF obs.op = "running"
              THEN [obs EXCEPT !.maps = @ \cup {[runtime |-> wr.after.runtime,
                                                 order |-> wr.after.order]}]
              ELSE obs
    /\ UNCHANGED <<os_environ, registered, initialized, rd, ex>>

\* get_model_by_id: the call and self._initialize(), which returns at once
get_begin(model_id) ==
    /\ rd.pc = "idle"
    /\ initialized
    /\ rd' = [pc |-> "get_223", model_id |-> model_id]
    /\ obs' = Running
    /\ UNCHANGED <<os_environ, registered, runtime, initialized, order, clock, last, pc, wr, ex>>

\* line 223: if model_id in self._registered_models
get_test_registered ==
    /\ rd.pc = "get_223"
    /\ rd' = [rd EXCEPT !.pc = IF rd.model_id \in DOMAIN registered
                               THEN "get_224" ELSE "get_227"]
    /\ UNCHANGED <<os_environ, registered, runtime, initialized, order, clock, last, pc, wr,
                   obs, ex>>

\* line 224: return self._registered_models[model_id]
get_return_registered ==
    /\ rd.pc = "get_224"
    /\ rd' = NoReader
    /\ obs' = IF rd.model_id \in DOMAIN registered
              THEN Returned("get_model_by_id", rd.model_id, NoError,
                            Some(RegisteredObject(rd.model_id)))
              ELSE Returned("get_model_by_id", rd.model_id, ErrKeyError, Absent)
    /\ UNCHANGED <<os_environ, registered, runtime, initialized, order, clock, last, pc, wr, ex>>

\* line 227: if model_id in self._runtime_models, and "return None" if not
get_test_runtime ==
    /\ rd.pc = "get_227"
    /\ IF rd.model_id \in DOMAIN runtime
       THEN /\ rd' = [rd EXCEPT !.pc = "get_228"]
            /\ obs' = obs
       ELSE /\ rd' = NoReader
            /\ obs' = Returned("get_model_by_id", rd.model_id, NoError, Absent)
    /\ UNCHANGED <<os_environ, registered, runtime, initialized, order, clock, last, pc, wr, ex>>

\* line 228: return self._runtime_models[model_id]
get_return_runtime ==
    /\ rd.pc = "get_228"
    /\ rd' = NoReader
    /\ obs' = IF rd.model_id \in DOMAIN runtime
              THEN Returned("get_model_by_id", rd.model_id, NoError,
                            Some(RuntimeObject(runtime[rd.model_id])))
              ELSE Returned("get_model_by_id", rd.model_id, ErrKeyError, Absent)
    /\ UNCHANGED <<os_environ, registered, runtime, initialized, order, clock, last, pc, wr, ex>>

\* get_all_models: the call, self._initialize(), and the iterator of line 238
\* (k: the registered models it has yielded)
list_begin(include_inactive) ==
    /\ rd.pc = "idle"
    /\ initialized
    /\ rd' = [pc |-> "list_238", include_inactive |-> include_inactive, k |-> 0,
              vals |-> <<>>, registered_summaries |-> <<>>,
              it |-> <<>>, j |-> 0, changed_size |-> FALSE, runtime_summaries |-> <<>>]
    /\ obs' = Running
    /\ UNCHANGED <<os_environ, registered, runtime, initialized, order, clock, last, pc, wr, ex>>

\* line 238: the next model of self._registered_models.values(), or the end
\* of the loop
list_next_registered ==
    /\ rd.pc = "list_238"
    /\ rd' = IF rd.k < Len(order.registered)
             THEN [rd EXCEPT !.pc = "list_239", !.k = @ + 1]
             ELSE [rd EXCEPT !.pc = "list_254"]
    /\ UNCHANGED <<os_environ, registered, runtime, initialized, order, clock, last, pc, wr,
                   obs, ex>>

\* line 239: if include_inactive or model.status == ModelStatus.ACTIVE
list_test_status ==
    /\ rd.pc = "list_239"
    /\ rd' = IF Listed(registered[order.registered[rd.k]], rd.include_inactive)
             THEN [rd EXCEPT !.pc = "list_241"]
             ELSE [rd EXCEPT !.pc = "list_238"]
    /\ UNCHANGED <<os_environ, registered, runtime, initialized, order, clock, last, pc, wr,
                   obs, ex>>

\* one of the lines 241-248: the next attribute of the model is read; after
\* the last one the summary is built and appended (lines 240, 250)
list_read_attribute ==
    /\ rd.pc = "list_241"
    /\ LET model == registered[order.registered[rd.k]]
           vals  == Append(rd.vals, model[SummaryOrder[Len(rd.vals) + 1]])
       IN rd' = IF Len(vals) < Len(SummaryOrder)
                THEN [rd EXCEPT !.vals = vals]
                ELSE [rd EXCEPT !.pc = "list_238", !.vals = <<>>,
                                !.registered_summaries = Append(@, SummaryOf(vals))]
    /\ UNCHANGED <<os_environ, registered, runtime, initialized, order, clock, last, pc, wr,
                   obs, ex>>

\* line 254: the iterator of self._runtime_models.values() (it: the values of
\* the dict it is on, j: those it has yielded)
list_iter_runtime ==
    /\ rd.pc = "list_254"
    /\ rd' = [rd EXCEPT !.pc = "list_254_next",
                        !.it = ValuesInOrder(runtime, order.runtime)]
    /\ UNCHANGED <<os_environ, registered, runtime, initialized, order, clock, last, pc, wr,
                   obs, ex>>

\* line 254, a step of the iterator: RuntimeError if the dict changed size,
\* else the next model and its summary (lines 255-265), else the end of the
\* loop and the return (lines 268-274)
list_next_runtime ==
    /\ rd.pc = "list_254_next"
    /\ IF rd.changed_size
       THEN /\ rd' = NoReader
            /\ obs' = Returned("get_all_models", rd.include_inactive, ErrDictChanged, Absent)
       ELSE IF rd.j < Len(rd.it)
       THEN /\ rd' = [rd EXCEPT !.j = @ + 1,
                                !.runtime_summaries = Append(@, ModelSummary(rd.it[rd.j + 1]))]
            /\ obs' = obs
       ELSE /\ rd' = NoReader
            /\ obs' = Returned("get_all_models", rd.include_inactive, NoError,
                               Response(rd.registered_summaries, rd.runtime_summaries))
    /\ UNCHANGED <<os_environ, registered, runtime, initialized, order, clock, last, pc, wr, ex>>

\* the service after __init__ at some time and register_model(RegisterA), its
\* first call, in a process whose environment did not define the identifier
\* "a"; time has passed and the host has changed the environment since
InitConc ==
    /\ os_environ \in Environments
    /\ \E e \in {x \in Environments : ~IsCandidate(x, "A")} :
       \E eo \in Orderings(SetSegs(e)) :
       \E t \in 0..MaxClock :
       \E scan \in load_runtime_models(e, eo, t) :
       \E now \in Now(scan) :
          /\ runtime = scan.runtime
          /\ order \in {[environ |-> o, registered |-> <<"a">>, runtime |-> scan.order] :
                           o \in Orderings(SetSegs(os_environ))}
          /\ clock \in now..MaxClock
          /\ registered = ("a" :> NewModel(RegisterA, now))
          /\ last = Result("register_model", NoError, Some(NewModel(RegisterA, now)))
    /\ initialized = TRUE
    /\ pc = "idle"
    /\ wr = NoCall
    /\ rd = NoReader
    /\ obs = NoRead
    /\ ex = NoExecutor

NextConc ==
    \/ \E id \in ModelIds, request \in UpdateRequests : update_begin(id, request)
    \/ update_step
    \/ reload_clear
    \/ reload_load
    \/ \E id \in ModelIds : get_begin(id)
    \/ get_test_registered
    \/ get_return_registered
    \/ get_test_runtime
    \/ get_return_runtime
    \/ \E include_inactive \in BOOLEAN : list_begin(include_inactive)
    \/ list_next_registered
    \/ list_test_status
    \/ list_read_attribute
    \/ list_iter_runtime
    \/ list_next_runtime

SpecConc == InitConc /\ [][NextConc]_vars

(***************************************************************************)
(* SpecExec: one executor and one evaluation run; the registry is idle.    *)
(***************************************************************************)
InitExec ==
    /\ os_environ = [seg \in Segs |-> NoVar]
    /\ registered = <<>>
    /\ runtime = <<>>
    /\ initialized = FALSE
    /\ order = [environ |-> <<>>, registered |-> <<>>, runtime |-> <<>>]
    /\ clock = 0
    /\ last = Result("__init__", NoError, Absent)
    /\ pc = "idle"
    /\ wr = NoCall
    /\ rd = NoReader
    /\ obs = NoRead
    /\ ex = NoExecutor

NextExec ==
    \/ \E config \in BackendConfigs : Construct(config)
    \/ \E outcome \in ProbeOutcomes : health_check(outcome)
    \/ CreateContext
    \/ \E callback \in BOOLEAN : execute_benchmark(callback)
    \/ attempt_succeeds
    \/ \E recoverable \in BOOLEAN : attempt_fails(recoverable)
    \/ retry
    \/ deadline_elapses

SpecExec == InitExec /\ [][NextExec]_vars

(***************************************************************************)
(* Properties of the registry under sequential callers (Spec).             *)
(***************************************************************************)
\* the calls of the three mutating methods
IsRegister == \E request \in RegistrationRequests : register_model(request)

IsUpdate == \E id \in ModelIds, request \in UpdateRequests : update_model(id, request)

IsDelete == \E id \in ModelIds : delete_model(id)

\* C1: no model identifier is in the registered map and in the runtime map
\* at the same time.
C1_MapsDisjoint == DOMAIN registered \cap DOMAIN runtime = {}

\* C2: register_model of an identifier that is in the registered map or in
\* the environment-sourced map raises a conflict error; update_model and
\* delete_model of an identifier of the environment-sourced map raise their
\* protection error, whatever the registered map holds.  The
\* environment-sourced map is the one the service presents at the call
\* (RuntimeView).
C2_ConflictAndProtection ==
    [][ /\ \A request \in RegistrationRequests :
             (/\ last'.op = "register_model"
              /\ request.model_id \in DOMAIN registered \cup RuntimeIds
              /\ register_model(request))
             => last'.err \in {ErrExists, ErrIsRuntime}
        /\ \A id \in ModelIds, request \in UpdateRequests :
             (last'.op = "update_model" /\ id \in RuntimeIds /\ update_model(id, request))
             => last'.err = ErrUpdateRuntime
        /\ \A id \in ModelIds :
             (last'.op = "delete_model" /\ id \in RuntimeIds /\ delete_model(id))
             => last'.err = ErrDeleteRuntime ]_vars

\* C2 witness: update_model of "a" was refused although "a" is registered too.
C2_Witness ==
    /\ last.op = "update_model"
    /\ last.err = ErrUpdateRuntime
    /\ DOMAIN runtime = {"a"}
    /\ "a" \in DOMAIN registered

\* C3: a register_model, update_model or delete_model call that raises leaves
\* the registered map and the environment-sourced map (RuntimeView) with the
\* identifiers and field values they had before the call (a first call settles
\* the timestamps of the map it installs and nothing else).
C3_FailedCallChangesNothing ==
    [][ (last'.err # NoError /\ (IsRegister \/ IsUpdate \/ IsDelete))
        => (registered' = registered /\ RuntimeView' \subseteq RuntimeView) ]_vars

\* C3 witness: a registration was refused for a runtime identifier while
\* both maps hold entries.
C3_Witness ==
    /\ last.op = "register_model"
    /\ last.err = ErrIsRuntime
    /\ registered # <<>>
    /\ runtime # <<>>

\* C4: a successful update_model(id, request) gives the entry id the supplied
\* values in the supplied fields and the time of the call as updated_at; the
\* omitted fields, model_id and created_at keep their values, and so do the
\* other registered entries and the whole runtime map.
C4_UpdateFrame ==
    [][ \A id \in ModelIds, request \in UpdateRequests :
          (/\ last'.op = "update_model" /\ last'.err = NoError /\ last'.ret # Absent
           /\ update_model(id, request))
          => /\ DOMAIN registered' = DOMAIN registered
             /\ \A f \in DOMAIN request : registered'[id][f] = request[f]
             /\ \A f \in DOMAIN registered[id] \ (DOMAIN request \cup {"updated_at"}) :
                  registered'[id][f] = registered[id][f]
             /\ registered'[id].updated_at = clock'
             /\ clock' = clock
             /\ \A other \in DOMAIN registered \ {id} : registered'[other] = registered[other]
             /\ runtime' = runtime
             /\ last'.ret = Some(registered'[id]) ]_vars

\* C4 witness: the entry "a", registered with name "M" and description "d",
\* after an update that supplied a name and no description, beside an entry
\* "B" and a runtime model the update left alone.
C4_Witness ==
    /\ last.op = "update_model"
    /\ last.err = NoError
    /\ "a" \in DOMAIN registered
    /\ last.ret = Some(registered["a"])
    /\ registered["a"].model_name = "M'"
    /\ registered["a"].description = "d"
    /\ registered["a"].updated_at > registered["a"].created_at
    /\ "B" \in DOMAIN registered
    /\ "b" \in DOMAIN runtime

\* C5: after reload_runtime_models the runtime map holds exactly the models of
\* the environment of that moment: every entry comes from a variable that is
\* set now, an identifier whose variable is gone is absent, and the registered
\* map is unchanged.
C5_ReloadIsSnapshot ==
    [][ (last'.op = "reload_runtime_models" /\ reload_runtime_models)
        => /\ \A id \in DOMAIN runtime' :
                \E seg \in Segs : /\ IsCandidate(os_environ, seg)
                                  /\ Lower(seg) = id
                                  /\ \E created, updated \in clock..clock' :
                                        /\ created <= updated
                                        /\ runtime'[id]
                                             = RuntimeModel(os_environ, seg, created, updated)
           /\ \A seg \in Segs : IsCandidate(os_environ, seg) => Lower(seg) \in DOMAIN runtime'
           /\ registered' = registered ]_vars

\* C5 witness: a reload dropped an identifier of the previous snapshot and
\* kept another one.
C5_Witness ==
    /\ last.op = "reload_runtime_models"
    /\ last.replaced \ DOMAIN runtime # {}
    /\ runtime # <<>>
    /\ registered # <<>>

\* C8: get_model_by_id returns the registered entry if there is one, otherwise
\* the runtime entry if there is one, otherwise None, and changes neither the
\* registered map nor the environment-sourced map (RuntimeView).
C8_GetLookupOrder ==
    [][ \A id \in ModelIds :
          (last'.op = "get_model_by_id" /\ get_model_by_id(id))
          => /\ last'.ret = IF id \in DOMAIN registered' THEN Some(registered'[id])
                            ELSE IF id \in DOMAIN runtime' THEN Some(runtime'[id])
                            ELSE Absent
             /\ registered' = registered
             /\ RuntimeView' \subseteq RuntimeView ]_vars

\* C8 witness: get_model_by_id returned a runtime entry while the registered
\* map holds another identifier.
C8_Witness ==
    /\ last.op = "get_model_by_id"
    /\ "b" \in DOMAIN runtime
    /\ last.ret = Some(runtime["b"])
    /\ "a" \in DOMAIN registered

\* C9: whenever the identifier of the model get_model_by_id returned is in the
\* runtime map, the returned model is the runtime one.
C9_RuntimePrecedence ==
    (last.op = "get_model_by_id" /\ last.ret # Absent /\ last.ret[1].model_id \in DOMAIN runtime)
    => last.ret = Some(runtime[last.ret[1].model_id])

\* C10: get_all_models(include_inactive=False) lists no registered entry whose
\* status is not active; for either flag it lists every runtime entry,
\* total_models is the number of summaries listed, and runtime_models is
\* exactly the summaries of the runtime map.
C10_ListContents ==
    [][ \A include_inactive \in BOOLEAN :
          (last'.op = "get_all_models" /\ get_all_models(include_inactive))
          => LET r == last'.ret.response
             IN /\ ~include_inactive =>
                     \A id \in DOMAIN registered' :
                        registered'[id].status # "active"
                        => \A i \in 1..Len(r.models) : r.models[i] # ModelSummary(registered'[id])
                /\ \A id \in DOMAIN runtime' :
                     \E i \in 1..Len(r.models) : r.models[i] = ModelSummary(runtime'[id])
                /\ r.total_models = Len(r.models)
                /\ {r.runtime_models[i] : i \in 1..Len(r.runtime_models)}
                     = {ModelSummary(runtime'[id]) : id \in DOMAIN runtime'}
                /\ Len(r.runtime_models) = Cardinality(DOMAIN runtime') ]_vars

\* C10 witness: an active-only listing while "a", registered active, has been
\* made inactive by an update and the runtime map holds an entry.
C10_Witness ==
    /\ last.op = "get_all_models"
    /\ ~last.ret.include_inactive
    /\ "a" \in DOMAIN registered
    /\ registered["a"].status = "inactive"
    /\ runtime # <<>>
    /\ last.ret.response.total_models = Cardinality(DOMAIN runtime)

IsGet == \E id \in ModelIds : get_model_by_id(id)

IsList == \E include_inactive \in BOOLEAN : get_all_models(include_inactive)

IsSearch == get_active_models \/ \E query \in SearchQueries : search_models(query)

\* the names of the public methods that start with self._initialize()
PublicMethods == {"register_model", "update_model", "delete_model", "get_model_by_id",
                  "get_all_models", "search_models", "get_active_models"}

\* a call of one of them
IsPublicCall ==
    /\ last'.op \in PublicMethods
    /\ os_environ' = os_environ
    /\ IsRegister \/ IsUpdate \/ IsDelete \/ IsGet \/ IsList \/ IsSearch

\* the values of a map
Values(m) == {m[id] : id \in DOMAIN m}

\* C11: search_models returns exactly the models of the two maps that pass
\* every supplied filter (model_type equal, status equal, at least one of the
\* requested tags among the model's tags), each entry once; a filter that is
\* None, or an empty tag list, excludes nothing.
C11_SearchFilters ==
    [][ \A query \in SearchQueries :
          (last'.op = "search_models" /\ search_models(query))
          => LET Pass(m) ==
                     /\ query.model_type # None => m.model_type = query.model_type
                     /\ query.status # None => m.status = query.status
                     /\ query.tags # NoTags =>
                          \E i \in 1..Len(query.tags), j \in 1..Len(m.tags) :
                             query.tags[i] = m.tags[j]
             IN /\ Elements(last'.ret)
                     = {m \in Values(registered') \cup Values(runtime') : Pass(m)}
                /\ Len(last'.ret)
                     = Cardinality({id \in DOMAIN registered' : Pass(registered'[id])})
                       + Cardinality({id \in DOMAIN runtime' : Pass(runtime'[id])}) ]_vars

\* C11 witness: a search returned a registered model and a runtime model and
\* left out a registered model.
C11_Witness ==
    /\ last.op = "search_models"
    /\ \E m \in Elements(last.ret) : m \in Values(registered)
    /\ \E m \in Elements(last.ret) : m \in Values(runtime)
    /\ \E m \in Values(registered) : m \notin Elements(last.ret)

\* C12: every call of a public method leaves the service initialized; the
\* call that initializes it installs the scan of the environment of that
\* moment; once initialized, no step but reload_runtime_models changes the
\* runtime map, whatever the host does to the environment, and the service
\* stays initialized; reload_runtime_models installs the scan of the current
\* environment.
C12_ScanOnceUntilReload ==
    [][ /\ ~initialized' => ~IsPublicCall
        /\ (~initialized /\ initialized')
             => \E scan \in load_runtime_models(os_environ, order.environ, clock) :
                   runtime' = scan.runtime /\ order'.runtime = scan.order
        /\ initialized => initialized'
        /\ (initialized /\ (runtime' # runtime \/ order'.runtime # order.runtime))
             => (last'.op = "reload_runtime_models" /\ reload_runtime_models)
        /\ (last'.op = "reload_runtime_models" /\ reload_runtime_models)
             => \E scan \in load_runtime_models(os_environ', order'.environ, clock) :
                   runtime' = scan.runtime /\ order'.runtime = scan.order ]_vars

\* C12 witness: after a public call on the initialized service the runtime
\* map lacks "b" although the environment defines segment B now.
C12_Witness ==
    /\ initialized
    /\ last.op = "get_model_by_id"
    /\ last.ret = Absent
    /\ "a" \notin DOMAIN registered
    /\ IsCandidate(os_environ, "B")
    /\ IsCandidate(os_environ, "A")
    /\ runtime = <<>>

\* the runtime map is (re)built: by reload_runtime_models or by the first
\* public call
IsScan ==
    \/ last'.op = "reload_runtime_models" /\ reload_runtime_models
    \/ ~initialized /\ initialized'

\* C13: a scan never aborts on a bad candidate.  A URL variable that is empty
\* after trimming yields no entry, a _TYPE that is no ModelType yields an
\* entry of the default type, and every variable with a non-empty URL yields
\* its entry; every entry of the runtime map has the lowercased ID segment
\* as identifier, api_key_required = True, status active and the tag
\* "runtime".
C13_ScanSkipsAndDefaults ==
    [][ IsScan
        => /\ \A seg \in Segs :
                os_environ[seg] # NoVar
                => IF Strip(os_environ[seg].url) = ""
                   THEN Lower(seg) \notin DOMAIN runtime'
                   ELSE /\ Lower(seg) \in DOMAIN runtime'
                        /\ runtime'[Lower(seg)].base_url = Strip(os_environ[seg].url)
                        /\ (os_environ[seg].type # None
                             /\ Lower(os_environ[seg].type) \notin ModelType)
                            => runtime'[Lower(seg)].model_type = "openai-compatible"
           /\ \A id \in DOMAIN runtime' :
                /\ runtime'[id].model_id = id
                /\ \E seg \in Segs : os_environ[seg] # NoVar /\ id = Lower(seg)
                /\ runtime'[id].api_key_required = TRUE
                /\ runtime'[id].status = "active"
                /\ runtime'[id].tags = <<"runtime">> ]_vars

\* C13 witness: a reload with segment A set to a blank URL and segment B
\* carrying an unknown _TYPE loaded "b" alone.
C13_Witness ==
    /\ last.op = "reload_runtime_models"
    /\ os_environ["A"] = EnvBlank
    /\ os_environ["B"] = EnvFull
    /\ DOMAIN runtime = {"b"}
    /\ runtime["b"].model_type = "openai-compatible"

\* C14 as claimed: a successful update_model sets updated_at strictly above
\* the entry's previous updated_at.
C14_UpdatedAtStrictlyIncreases ==
    [][ \A id \in ModelIds, request \in UpdateRequests :
          (/\ last'.op = "update_model" /\ last'.err = NoError /\ last'.ret # Absent
           /\ update_model(id, request))
          => registered'[id].updated_at > registered[id].updated_at ]_vars

\* C14 amended: register_model stores created_at = updated_at = the clock
\* reading of the call; a successful update_model sets updated_at to the clock
\* reading of its call and keeps created_at, so that updated_at is above the
\* previous value exactly when the clock advanced since it was set, equal to
\* it otherwise, and never below created_at (the clock not going back).
C14_TimestampsFollowClock ==
    [][ /\ \A request \in RegistrationRequests :
             (/\ last'.op = "register_model" /\ last'.err = NoError
              /\ register_model(request))
             => /\ registered'[request.model_id].created_at = clock'
                /\ registered'[request.model_id].updated_at = clock'
                /\ clock' >= clock
        /\ \A id \in ModelIds, request \in UpdateRequests :
             (/\ last'.op = "update_model" /\ last'.err = NoError /\ last'.ret # Absent
              /\ update_model(id, request))
             => /\ registered'[id].updated_at = clock'
                /\ clock' >= clock
                /\ registered'[id].created_at = registered[id].created_at
                /\ registered'[id].updated_at >= registered[id].updated_at
                /\ registered'[id].updated_at >= registered'[id].created_at
                /\ (registered'[id].updated_at > registered[id].updated_at)
                     <=> (clock' > registered[id].updated_at) ]_vars

\* C14 witness: an entry updated after the clock advanced, and the last call
\* was an update that found the clock where the previous one left it.
C14_Witness ==
    /\ last.op = "update_model"
    /\ last.err = NoError
    /\ "a" \in DOMAIN registered
    /\ last.ret = Some(registered["a"])
    /\ registered["a"].created_at = 0
    /\ registered["a"].updated_at = 1
    /\ registered["a"].status = "inactive"
    /\ registered["a"].model_name = "M'"

\* C15: for an identifier that is in neither map (the environment-sourced one
\* being RuntimeView), update_model returns None without raising and
\* delete_model returns False, both leaving the two maps as they were;
\* delete_model returns True exactly when it removed a registered entry, and
\* then the identifier is in neither map: get_model_by_id finds nothing and
\* register_model's checks pass for it.
C15_NotFoundAndDelete ==
    [][ /\ \A id \in ModelIds, request \in UpdateRequests :
             (/\ last'.op = "update_model"
              /\ id \notin DOMAIN registered \cup RuntimeIds
              /\ update_model(id, request))
             => /\ last'.err = NoError /\ last'.ret = Absent
                /\ registered' = registered /\ RuntimeView' \subseteq RuntimeView
        /\ \A id \in ModelIds :
             (last'.op = "delete_model" /\ delete_model(id))
             => /\ id \notin DOMAIN registered \cup RuntimeIds
                   => /\ last'.err = NoError /\ last'.ret = FALSE
                      /\ registered' = registered /\ RuntimeView' \subseteq RuntimeView
                /\ last'.ret = TRUE
                   <=> (id \in DOMAIN registered /\ id \notin DOMAIN registered')
                /\ last'.ret = TRUE
                   => /\ last'.err = NoError
                      /\ registered' = [i \in DOMAIN registered \ {id} |-> registered[i]]
                      /\ Lookup(registered', runtime', id) = Absent
                      /\ RegisterCheck(registered', runtime', id) = NoError ]_vars

\* C15 witness: delete_model removed an entry and another registered entry
\* remains.
C15_Witness ==
    /\ last.op = "delete_model"
    /\ last.ret = TRUE
    /\ DOMAIN registered = {"B"}
    /\ runtime # <<>>

\* C21: get_all_models(include_inactive=True) lists no model identifier
\* twice, total_models is the number of distinct identifiers of the two maps,
\* and for every summary listed get_model_by_id of its identifier finds a
\* model with the summary's name, type, base URL and status.
C21_ListConsistentWithGet ==
    [][ (last'.op = "get_all_models" /\ get_all_models(TRUE))
        => LET r == last'.ret.response
           IN /\ \A i, j \in 1..Len(r.models) :
                    r.models[i].model_id = r.models[j].model_id => i = j
              /\ r.total_models = Cardinality(DOMAIN registered' \cup DOMAIN runtime')
              /\ \A i \in 1..Len(r.models) :
                    LET found == Lookup(registered', runtime', r.models[i].model_id)
                    IN /\ found # Absent
                       /\ found[1].model_name = r.models[i].model_name
                       /\ found[1].model_type = r.models[i].model_type
                       /\ found[1].base_url = r.models[i].base_url
                       /\ found[1].status = r.models[i].status ]_vars

\* C22: for every identifier of the registered map, update_model succeeds
\* (returns the model, raises nothing) and delete_model returns True and
\* removes the entry.
C22_RegisteredStaysManageable ==
    [][ /\ \A id \in ModelIds, request \in UpdateRequests :
             (/\ last'.op = "update_model"
              /\ id \in DOMAIN registered
              /\ update_model(id, request))
             => /\ last'.err = NoError
                /\ last'.ret = Some(registered'[id])
        /\ \A id \in ModelIds :
             (/\ last'.op = "delete_model"
              /\ id \in DOMAIN registered
              /\ delete_model(id))
             => /\ last'.err = NoError
                /\ last'.ret = TRUE
                /\ id \notin DOMAIN registered' ]_vars

(***************************************************************************)
(* Properties of the registry under concurrent callers (SpecConc).         *)
(***************************************************************************)
\* a get_model_by_id or get_all_models call of the reader thread returns or
\* raises
ReaderReturns == rd.pc # "idle" /\ rd'.pc = "idle"

\* C6: a get_model_by_id or get_all_models call that runs concurrently with
\* reload_runtime_models raises nothing and returns what the complete runtime
\* map of before the reload or the complete map of after it holds: the model
\* of the identifier (for an identifier that is not registered), the
\* summaries of the runtime models.
C6_ReadersSeeOldOrNewMap ==
    [][ ReaderReturns
        => /\ obs'.err = NoError
           /\ (obs'.op = "get_model_by_id" /\ obs'.arg \notin DOMAIN registered)
                => \E m \in obs.maps :
                      obs'.ret = IF obs'.arg \in DOMAIN m.runtime
                                 THEN Some(RuntimeObject(m.runtime[obs'.arg]))
                                 ELSE Absent
           /\ obs'.op = "get_all_models"
                => \E m \in obs.maps :
                      obs'.ret.runtime_models = RuntimeSummaries(m.runtime, m.order) ]_vars

\* C7: every summary of a registered model that get_all_models returns shows
\* the entry with all the values it had before an update_model or with all
\* the values it has after it, and so does the model a get_model_by_id
\* returned, for as long as the caller holds it.
C7_ReadersSeeOldOrNewEntry ==
    [][ /\ (ReaderReturns /\ obs'.op = "get_all_models" /\ obs'.err = NoError)
             => \A i \in 1..(Len(obs'.ret.models) - Len(obs'.ret.runtime_models)) :
                   \E entry \in obs.entries : obs'.ret.models[i] = ModelSummary(entry)
        /\ (/\ obs'.op = "get_model_by_id"
            /\ obs'.ret # Absent
            /\ pc' = "update_model")
             => \/ obs'.ret[1] # RegisteredObject(wr'.model_id)
                \/ registered'[wr'.model_id] \in {wr'.before, wr'.after} ]_vars

(***************************************************************************)
(* Properties of the backend executor (SpecExec).                          *)
(***************************************************************************)

\* the number of entries of a sequence that equal x
Count(seq, x) == Cardinality({i \in 1..Len(seq) : seq[i] = x})

\* C16: constructing an executor from a configuration without endpoint raises
\* the error that names the field, from one with endpoint "" the distinct
\* non-empty error, and in both cases no executor exists afterwards; whenever
\* a run has started or a health check has answered, an executor exists and
\* its endpoint is a non-empty string.
C16_ConstructionFailsFast ==
    [][ /\ \A config \in BackendConfigs :
             Construct(config)
             => /\ config.endpoint = None
                   => ex'.ctor = ErrMissingEndpoint /\ ex'.executor = Absent
                /\ config.endpoint = ""
                   => ex'.ctor = ErrEmptyEndpoint /\ ex'.executor = Absent
                /\ ex'.ctor # NoError => ex'.executor = Absent
        /\ (ex'.health # Absent \/ ex'.status \notin {NoRun, "PENDING"})
             => /\ ex'.executor # Absent
                /\ ex'.executor[1].endpoint \notin {None, ""} ]_vars

\* C16 witness: the construction with endpoint "" has just failed while an
\* Execution Context waits; no executor, no attempt, no health check.
C16_Witness ==
    /\ ex.ctor = ErrEmptyEndpoint
    /\ ex.executor = Absent
    /\ ex.status = "PENDING"
    /\ ex.health = Absent
    /\ ex.tracker = <<>>

\* C17: when a run with a progress callback is COMPLETED, updates were
\* emitted: the first on start, one per retry, the last on completion; the
\* values strictly increase in emission order and only the last one is the
\* completion value.
C17_ProgressStrictlyIncreases ==
    (ex.status = "COMPLETED" /\ ex.callback)
    => /\ Len(ex.progress) >= 1
       /\ Len(ex.progress) = ex.failures + 2
       /\ ex.progress[1] = ProgressStart
       /\ ex.progress[Len(ex.progress)] = ProgressComplete
       /\ \A i \in 1..(Len(ex.progress) - 1) :
             /\ ex.progress[i] < ex.progress[i + 1]
             /\ ex.progress[i] # ProgressComplete

\* C17 witness: a run with a callback completed at its third attempt.
C17_Witness ==
    /\ ex.status = "COMPLETED"
    /\ ex.callback
    /\ ex.attempts = 3
    /\ Len(ex.progress) = 4

\* the transitions of the state machine of a run as it is drawn: a terminal
\* state is entered from RUNNING
DrawnEdges ==
    {<<"PENDING", "RUNNING">>, <<"RUNNING", "RETRYING">>, <<"RETRYING", "RUNNING">>}
    \cup {<<"RUNNING", t>> : t \in TerminalStates}

\* the transitions of a run: those drawn, and the one of the overall deadline
\* elapsing during the backoff wait
RunEdges == DrawnEdges \cup {<<"RETRYING", "TIMEOUT">>}

\* C18 as claimed: the state of a run changes only along PENDING -> RUNNING
\* -> (RETRYING -> RUNNING)* -> COMPLETED | FAILED | TIMEOUT.
C18_OnlyDrawnEdges ==
    [][ \/ ex'.status = ex.status
        \/ ex.status = NoRun /\ ex'.status = "PENDING"
        \/ <<ex.status, ex'.status>> \in DrawnEdges ]_vars

\* C18, amended: the state of a run changes only along PENDING -> RUNNING ->
\* (RETRYING -> RUNNING)* -> COMPLETED | FAILED | TIMEOUT or, when the overall
\* deadline elapses during a backoff wait, from RETRYING to TIMEOUT (after
\* the construction of its Execution Context), never once it is terminal; the
\* run tracker has seen nothing before the run starts, its start notification
\* alone while the run is RUNNING or RETRYING, and the start notification
\* followed by exactly one terminal notification once the run is terminal:
\* complete for COMPLETED, fail for FAILED and TIMEOUT.
C18_RunStateMachine ==
    [][ /\ \/ ex'.status = ex.status
           \/ ex.status = NoRun /\ ex'.status = "PENDING"
           \/ <<ex.status, ex'.status>> \in RunEdges
        /\ ex.status \in TerminalStates
             => ex'.status = ex.status /\ ex'.tracker = ex.tracker
        /\ ex'.status \in {NoRun, "PENDING"} => ex'.tracker = <<>>
        /\ ex'.status \in {"RUNNING", "RETRYING"} => ex'.tracker = <<"start">>
        /\ ex'.status = "COMPLETED" => ex'.tracker = <<"start", "complete">>
        /\ ex'.status \in {"FAILED", "TIMEOUT"} => ex'.tracker = <<"start", "fail">> ]_vars

\* C18 witness: a health check answered after the run had timed out in the
\* backoff wait that followed the failure of its second attempt.
C18_Witness ==
    /\ ex.status = "TIMEOUT"
    /\ ex.attempts = 2
    /\ ex.failures = 2
    /\ ex.health # Absent
    /\ ex.tracker = <<"start", "fail">>

\* C19: a run never makes more attempts than the maximum attempt count of
\* its executor's configuration; a run that is FAILED or TIMEOUT has returned
\* a canonical result (nothing raised) of the matching non-completed status
\* and the run tracker's fail was called exactly once, complete never; a
\* FAILED run has had all its attempts fail; a COMPLETED run succeeded at its
\* last attempt and makes no further one.
C19_BoundedRetriesThenFailedResult ==
    [][ /\ ex'.attempts <= (IF ex'.executor = Absent THEN 0
                            ELSE MaxAttempts(ex'.executor[1]))
        /\ ex'.status \in {"FAILED", "TIMEOUT"}
             => /\ ex'.result = Some([raised |-> FALSE,
                                      status |-> IF ex'.status = "FAILED"
                                                 THEN "failed" ELSE "timeout"])
                /\ Count(ex'.tracker, "fail") = 1
                /\ Count(ex'.tracker, "complete") = 0
        /\ ex'.status = "FAILED" => ex'.failures = ex'.attempts
        /\ ex'.status = "COMPLETED" => ex'.failures = ex'.attempts - 1
        /\ ex.status = "COMPLETED"
             => ex'.attempts = ex.attempts /\ ex'.status = "COMPLETED" ]_vars

\* C19 witness: under the default budget three attempts failed and the run is
\* FAILED.
C19_Witness ==
    /\ ex.status = "FAILED"
    /\ ex.executor # Absent
    /\ ex.executor[1].max_retries = Absent
    /\ ex.attempts = DefaultMaxRetries
    /\ ex.failures = DefaultMaxRetries
    /\ ex.result = Some(CanonicalResult("failed"))

\* C20: health_check raises nothing whatever the probe does, returns True
\* when the probe answers 200 and False when it answers another status or
\* raises, and leaves the executor, the run, the run tracker's log and the
\* progress log as they were.
C20_HealthCheckNeverRaises ==
    [][ \A outcome \in ProbeOutcomes :
          health_check(outcome)
          => /\ ex'.health = Some([raised |-> FALSE, ret |-> (outcome = "200")])
             /\ [ex' EXCEPT !.health = ex.health] = ex ]_vars

\* C20 witness: during an attempt a health check answered False.
C20_Witness ==
    /\ ex.status = "RUNNING"
    /\ ex.attempts = 2
    /\ ex.health = Some([raised |-> FALSE, ret |-> FALSE])

TypeOK == /\ initialized \in BOOLEAN
          /\ clock \in 0..MaxClock
          /\ DOMAIN registered \subseteq {"a", "B"}
          /\ DOMAIN runtime \subseteq {"a", "b"}
          /\ Elements(order.registered) = DOMAIN registered
          /\ Elements(order.runtime) = DOMAIN runtime
          /\ Elements(order.environ) = SetSegs(os_environ)
          /\ ex.status \in RunStates
====
